---- MODULE Spec2Model ----
(***************************************************************************)
(* Model of antigravity/client.py: the backend stream decoder              *)
(* (_stream_generate_content_single) run under the endpoint failover loop  *)
(* (stream_generate_content).                                              *)
(*                                                                         *)
(* One behaviour is one call of stream_generate_content.  The backend is   *)
(* the environment: it chooses how each connection attempt answers and     *)
(* which lines the response stream carries.                                *)
(*                                                                         *)
(* The caller-format encoder (convert_sse_to_openai_format and             *)
(* generate_finish_chunk) is modelled as one encoding session, under its   *)
(* own specification SpecEncode.                                           *)
(***************************************************************************)
EXTENDS Integers, Sequences, FiniteSets, TLC

VARIABLES
    endpoints,         \* the candidate list built from primary_url / backup_url
    endpoint_index,    \* loop variable of the for loop (1-based here)
    pc,                \* "try" | "streaming" | "returned" | "raised"
    thinking_started,  \* decoder flag of the current attempt
    tool_calls,        \* decoder accumulator of the current attempt
    line,              \* the generator's local: the line aiter_lines() delivered last
    last_error,        \* the orchestrator's last_error (None until set)
    raised,            \* the exception that left stream_generate_content
    out,               \* history: chunks yielded to the caller, with their endpoint
    attempts,          \* history: endpoints a connection was opened to, in order
    open,              \* endpoints whose client/response context is entered
    errors,            \* history: the exception each failed attempt ended with
    nlines,            \* lines read so far in this call (bounded by MaxLines)
    nparts,            \* parts decoded so far in this call (bounded by MaxParts)
    consumer,          \* the caller of the generator: "awaiting" the next chunk,
                       \* "holding" the chunk just yielded, or "gone"
    \* the encoding session
    epc,               \* "idle" | "encoding" | "finished"
    stream_id,         \* the stream_id the caller passes to every call ("" for None)
    created,           \* the created the caller passes to every call (0 for None)
    has_tool_calls,    \* the session's record that a tool_calls event was encoded
    clock,             \* time.time(), in milliseconds
    fed,               \* history: the events passed to convert_sse_to_openai_format
    wire               \* history: the records written outward, with the event they come from

callVars == <<endpoints, endpoint_index, pc, thinking_started, tool_calls, line, last_error,
              raised, out, attempts, open, errors, nlines, nparts, consumer>>
sessionVars == <<epc, stream_id, created, has_tool_calls, clock, fed, wire>>
vars == <<callVars, sessionVars>>

----
\* Bounds of the model (the code has none).
MaxLines == 3
MaxParts == 2

\* Default of the timeout parameter, in seconds.
Timeout == 120

None == [cls |-> "None"]

----
\* The environment's inputs.

PRIMARY_URL == "https://primary"
\* What get_antigravity_api_endpoint_backup() may return: nothing, blanks, a URL.
BackupUrls == {"", "  ", "https://backup"}

\* str.strip() on the values above.
Strip(s) == IF s = "  " THEN "" ELSE s

\* Response statuses other than 200 that the backend answers with.
ErrorStatuses == {400, 403, 404, 429, 500, 502, 503, 504}
\* Status-like digit runs a response body or a transport error's message may hold.
Mentions == {{}, {429}, {503}}

ThoughtPart == [thought |-> TRUE, text |-> "t"]
TextPart == [text |-> "x"]
FunctionCallParts ==
    {[functionCall |-> [id |-> "c1", name |-> "lookup", args |-> [query |-> "{q}"]]],
     [functionCall |-> [id |-> "c2"]]}
\* A part whose processing raises (not a dict, or a functionCall that is not one).
MalformedPart == [malformed |-> TRUE]
Parts == {ThoughtPart, TextPart, MalformedPart} \cup FunctionCallParts

PartSeqs(k) == UNION {[1..n -> Parts] : n \in 0..k}

\* The lines of a response stream.
\*   skip:    empty, or not prefixed "data: "
\*   done:    "data: [DONE]"
\*   badjson: a data line whose payload json.loads rejects
\*   record:  a data line holding {"response": {"candidates": [...]}}
\* No line read yet.
NoLine == [kind |-> "none"]
SkipLine == [kind |-> "skip"]
DoneLine == [kind |-> "done"]
BadJsonLine == [kind |-> "badjson"]
NoCandidatesLine == [kind |-> "record", candidates |-> <<>>]
RecordLines(k) ==
    {[kind |-> "record", candidates |-> <<[parts |-> ps]>>] : ps \in PartSeqs(k)}
    \cup {[kind |-> "record", candidates |-> <<[parts |-> ps, finishReason |-> "STOP"]>>] :
            ps \in PartSeqs(k)}
Lines(k) == {SkipLine, DoneLine, BadJsonLine, NoCandidatesLine} \cup RecordLines(k)

----
\* Exceptions.  cls is the Python class; status the response status the message
\* was formatted with (0 when there is none); mentions the other digit runs in
\* the message; ep the endpoint whose attempt raised it.
ForbiddenError(status, body, ep) ==
    [cls |-> "ValueError", status |-> status, mentions |-> body, ep |-> ep]
StatusError(status, body, ep) ==
    [cls |-> "HTTPError", status |-> status, mentions |-> body, ep |-> ep]
\* httpx.ConnectTimeout / ReadTimeout
TimeoutError(ep) ==
    [cls |-> "TimeoutException", status |-> 0, mentions |-> {}, ep |-> ep]
\* httpx.ConnectError / ReadError / RemoteProtocolError
TransportError(m, ep) ==
    [cls |-> "TransportError", status |-> 0, mentions |-> m, ep |-> ep]
\* anything that is not an httpx.HTTPError
OtherError(ep) ==
    [cls |-> "Exception", status |-> 0, mentions |-> {}, ep |-> ep]

\* What client.stream() / response.aiter_lines() may raise.
TransportFailures(ep) ==
    {TimeoutError(ep), OtherError(ep)} \cup {TransportError(m, ep) : m \in Mentions}

IsTimeoutException(e) == e.cls = "TimeoutException"
IsHTTPError(e) == e.cls \in {"HTTPError", "TransportError", "TimeoutException"}

\* str(e), as far as the substring tests of the retry loop can see it: the
\* digit runs the message contains.
ErrorStr(e) == (IF e.status # 0 THEN {e.status} ELSE {}) \cup e.mentions

----
\* _stream_generate_content_single: the decoding of one data record.

OpenMarker == [type |-> "thinking", content |-> "<think>\n"]
CloseMarker == [type |-> "thinking", content |-> "\n</think>\n"]
ThinkingEvent(part) ==
    [type |-> "thinking", content |-> IF "text" \in DOMAIN part THEN part.text ELSE ""]
TextEvent(part) == [type |-> "text", content |-> part.text]
ToolCallsEvent(calls) == [type |-> "tool_calls", tool_calls |-> calls]

\* The dict appended to tool_calls for a functionCall part.
ToolCall(function_call) ==
    [id |-> IF "id" \in DOMAIN function_call THEN function_call.id ELSE "",
     type |-> "function",
     function |->
        [name |-> IF "name" \in DOMAIN function_call THEN function_call.name ELSE "",
         arguments |->
            IF "args" \in DOMAIN function_call /\ "query" \in DOMAIN function_call.args
            THEN function_call.args.query
            ELSE "{}"]]

\* The decoder's state while one record is processed: the flag, the accumulator,
\* the events yielded so far from this record, and whether an exception ended it.
Decoder(thinking, calls) ==
    [thinking_started |-> thinking, tool_calls |-> calls, events |-> <<>>, ok |-> TRUE]

\* Mutant of OnThoughtPart: the opening marker is emitted for every thought part.
OnThoughtPartAlwaysOpens(d, part) ==
    [d EXCEPT !.events = d.events \o <<OpenMarker, ThinkingEvent(part)>>,
              !.thinking_started = TRUE]

\* if part.get('thought') is True
OnThoughtPart(d, part) ==
    [d EXCEPT !.events = d.events
                  \o (IF ~d.thinking_started THEN <<OpenMarker>> ELSE <<>>)
                  \o <<ThinkingEvent(part)>>,
              !.thinking_started = TRUE]

\* elif 'text' in part
OnTextPart(d, part) ==
    [d EXCEPT !.events = d.events
                  \o (IF d.thinking_started THEN <<CloseMarker>> ELSE <<>>)
                  \o <<TextEvent(part)>>,
              !.thinking_started = FALSE]

\* elif 'functionCall' in part
OnFunctionCallPart(d, part) ==
    [d EXCEPT !.tool_calls = Append(d.tool_calls, ToolCall(part.functionCall))]

\* for part in parts: ...   (an exception leaves the loop and the record)
RECURSIVE ProcessParts(_, _)
ProcessParts(d, parts) ==
    IF parts = <<>> THEN d
    ELSE LET part == Head(parts) IN
         IF "malformed" \in DOMAIN part THEN [d EXCEPT !.ok = FALSE]
         ELSE IF "thought" \in DOMAIN part /\ part.thought = TRUE
              THEN ProcessParts(OnThoughtPart(d, part), Tail(parts))
         ELSE IF "text" \in DOMAIN part
              THEN ProcessParts(OnTextPart(d, part), Tail(parts))
         ELSE IF "functionCall" \in DOMAIN part
              THEN ProcessParts(OnFunctionCallPart(d, part), Tail(parts))
         ELSE ProcessParts(d, Tail(parts))

\* candidate.get('finishReason'): "" stands for None
FinishReason(candidate) ==
    IF "finishReason" \in DOMAIN candidate THEN candidate.finishReason ELSE ""

\* Mutant of OnFinish: the open thinking section is not closed before the calls.
OnFinishNoClose(d, finish_reason) ==
    IF finish_reason # "" /\ d.tool_calls # <<>>
    THEN [d EXCEPT !.events = d.events \o <<ToolCallsEvent(d.tool_calls)>>,
                   !.tool_calls = <<>>]
    ELSE d

\* Mutant of OnFinish: the accumulator is not cleared after the emission.
OnFinishKeepsCalls(d, finish_reason) ==
    IF finish_reason # "" /\ d.tool_calls # <<>>
    THEN [d EXCEPT !.events = d.events
                       \o (IF d.thinking_started THEN <<CloseMarker>> ELSE <<>>)
                       \o <<ToolCallsEvent(d.tool_calls)>>,
                   !.thinking_started = FALSE]
    ELSE d

\* if finish_reason and tool_calls: ...
OnFinish(d, finish_reason) ==
    IF finish_reason # "" /\ d.tool_calls # <<>>
    THEN [d EXCEPT !.events = d.events
                       \o (IF d.thinking_started THEN <<CloseMarker>> ELSE <<>>)
                       \o <<ToolCallsEvent(d.tool_calls)>>,
                   !.thinking_started = FALSE,
                   !.tool_calls = <<>>]
    ELSE d

\* The try block for one data line that is not the sentinel.
ProcessRecordResetsOnBadJson(l, thinking, calls) ==
    LET d == Decoder(thinking, calls) IN
    IF l.kind # "record" THEN Decoder(FALSE, <<>>)
    ELSE IF l.candidates = <<>> THEN d
    ELSE LET candidate == l.candidates[1]
             after == ProcessParts(d, candidate.parts)
         IN IF after.ok THEN OnFinish(after, FinishReason(candidate))
            ELSE after

\* Mutant of ProcessRecord: the finishReason check runs even when a part raised.
ProcessRecordFinishesAfterError(l, thinking, calls) ==
    LET d == Decoder(thinking, calls) IN
    IF l.kind # "record" THEN d
    ELSE IF l.candidates = <<>> THEN d
    ELSE LET candidate == l.candidates[1]
         IN OnFinish(ProcessParts(d, candidate.parts), FinishReason(candidate))

\* The body of the loop for one "data: " line that is not the sentinel.
ProcessRecord(l, thinking, calls) ==
    LET d == Decoder(thinking, calls) IN
    IF l.kind # "record" THEN d             \* json.JSONDecodeError: continue
    ELSE IF l.candidates = <<>> THEN d      \* if not candidates: continue
    ELSE LET candidate == l.candidates[1]
             after == ProcessParts(d, candidate.parts)
         IN IF after.ok THEN OnFinish(after, FinishReason(candidate))
            ELSE after                         \* except Exception: continue

\* The chunks as stream_generate_content yields them, tagged with their endpoint.
Forwarded(events, ep) == [k \in 1..Len(events) |-> [ep |-> ep, chunk |-> events[k]]]

----
\* stream_generate_content: the candidate list and the retry loop.

\* endpoints = [primary_url]; if backup_url and backup_url.strip(): append
BuildEndpoints(backup_url) ==
    IF backup_url # "" /\ Strip(backup_url) # ""
    THEN <<PRIMARY_URL, backup_url>>
    ELSE <<PRIMARY_URL>>

\* No encoding session runs.
SessionIdle ==
    /\ epc = "idle"
    /\ stream_id = ""
    /\ created = 0
    /\ has_tool_calls = FALSE
    /\ clock = 0
    /\ fed = <<>>
    /\ wire = <<>>

\* The locals of stream_generate_content before the loop.
CallStart ==
    /\ endpoint_index = 1
    /\ pc = "try"
    /\ thinking_started = FALSE
    /\ tool_calls = <<>>
    /\ line = NoLine
    /\ last_error = None
    /\ raised = None
    /\ out = <<>>
    /\ attempts = <<>>
    /\ open = {}
    /\ errors = <<>>
    /\ nlines = 0
    /\ nparts = 0
    /\ consumer = "awaiting"

Init ==
    /\ endpoints \in {BuildEndpoints(b) : b \in BackupUrls}
    /\ CallStart
    /\ SessionIdle

\* endpoint_index < len(endpoints) - 1, with the 1-based index of the model
\* Mutant of HasNext: the last candidate counts as having a successor.
HasNextOffByOne == endpoint_index <= Len(endpoints)

HasNext == endpoint_index < Len(endpoints)

\* The for loop ran out of candidates without a return or a raise: control is
\* at the code after the loop.
FallThrough == pc = "try" /\ endpoint_index > Len(endpoints)

\* Mutant of Continue: the loop retries the endpoint that just failed.
ContinueSameEndpoint ==
    /\ pc' = "try"
    /\ endpoint_index' = endpoint_index
    /\ raised' = raised

\* continue: the next iteration of the for loop
Continue ==
    /\ pc' = "try"
    /\ endpoint_index' = endpoint_index + 1
    /\ raised' = raised

\* Mutant of Raise: the first failure of the call is raised instead of the current one.
RaiseFirstError(e) ==
    /\ pc' = "raised"
    /\ raised' = (IF errors # <<>> THEN errors[1] ELSE e)
    /\ endpoint_index' = endpoint_index

\* raise: the exception leaves the generator
Raise(e) ==
    /\ pc' = "raised"
    /\ raised' = e
    /\ endpoint_index' = endpoint_index

\* except httpx.TimeoutException as e
ExceptTimeout(e) ==
    /\ last_error' = [cls |-> "HTTPError", status |-> 0, mentions |-> {Timeout}, ep |-> e.ep]
    /\ IF HasNext THEN Continue ELSE Raise(last_error')

\* Mutant of ExtractStatus: the test for "502" is missing.
ExtractStatusWithout502(error_str) ==
    IF 429 \in error_str THEN 429
    ELSE IF 500 \in error_str \/ 503 \in error_str \/ 504 \in error_str THEN 500
    ELSE 0

\* The status_code the substring tests extract from str(e); 0 stands for None.
ExtractStatus(error_str) ==
    IF 429 \in error_str THEN 429
    ELSE IF 500 \in error_str \/ 502 \in error_str \/ 503 \in error_str \/ 504 \in error_str
         THEN 500
    ELSE 0

\* except httpx.HTTPError as e
ExceptHTTPError(e) ==
    /\ last_error' = e
    /\ IF ExtractStatus(ErrorStr(e)) \in {429, 500} /\ HasNext THEN Continue ELSE Raise(e)

\* except Exception as e
ExceptException(e) ==
    /\ last_error' = e
    /\ IF HasNext THEN Continue ELSE Raise(e)

\* The except clauses, in the order Python tries them.
Except(e) ==
    IF IsTimeoutException(e) THEN ExceptTimeout(e)
    ELSE IF IsHTTPError(e) THEN ExceptHTTPError(e)
    ELSE ExceptException(e)

\* An exception leaves _stream_generate_content_single: both async with blocks
\* exit (the connection is closed), then the retry loop's handler runs.
AttemptFails(e) ==
    /\ errors' = Append(errors, e)
    /\ open' = open \ {endpoint_index}
    /\ line' = NoLine
    /\ Except(e)

AtLoopBody == pc = "try" /\ endpoint_index <= Len(endpoints)

\* client.stream(...) raises: no response was received.
ConnectFails ==
    /\ AtLoopBody
    /\ \E e \in TransportFailures(endpoint_index) :
          /\ attempts' = Append(attempts, endpoint_index)
          /\ AttemptFails(e)
    /\ UNCHANGED <<endpoints, thinking_started, tool_calls, out, nlines, nparts, consumer,
                   sessionVars>>

\* Mutant of StatusNot200: the error is raised but the response is not closed.
StatusNot200LeavesOpen ==
    /\ AtLoopBody
    /\ \E status \in ErrorStatuses, body \in Mentions :
          LET e == IF status = 403
                   THEN ForbiddenError(status, body, endpoint_index)
                   ELSE StatusError(status, body, endpoint_index)
          IN /\ attempts' = Append(attempts, endpoint_index)
             /\ errors' = Append(errors, e)
             /\ open' = open \cup {endpoint_index}
             /\ line' = NoLine
             /\ Except(e)
    /\ UNCHANGED <<endpoints, thinking_started, tool_calls, out, nlines, nparts, consumer,
                   sessionVars>>

\* The response arrives with a status other than 200: 403 raises ValueError,
\* any other raises httpx.HTTPError, both formatted with the status and the body.
StatusNot200 ==
    /\ AtLoopBody
    /\ \E status \in ErrorStatuses, body \in Mentions :
          /\ attempts' = Append(attempts, endpoint_index)
          /\ AttemptFails(IF status = 403
                          THEN ForbiddenError(status, body, endpoint_index)
                          ELSE StatusError(status, body, endpoint_index))
    /\ UNCHANGED <<endpoints, thinking_started, tool_calls, out, nlines, nparts, consumer,
                   sessionVars>>

\* The response arrives with status 200: a fresh decoder starts on its lines.
ConnectOk ==
    /\ AtLoopBody
    /\ attempts' = Append(attempts, endpoint_index)
    /\ open' = open \cup {endpoint_index}
    /\ thinking_started' = FALSE
    /\ tool_calls' = <<>>
    /\ line' = NoLine
    /\ pc' = "streaming"
    /\ UNCHANGED <<endpoints, endpoint_index, last_error, raised, out, errors, nlines, nparts,
                   consumer, sessionVars>>

\* The number of parts a line carries.
PartCount(l) ==
    IF l.kind = "record" /\ l.candidates # <<>>
    THEN Len(l.candidates[1].parts) ELSE 0

\* Mutant of Return: a stream that ended without an event counts as a failed
\* attempt and the loop goes on to the next candidate.
ReturnRetriesWhenEmpty ==
    /\ open' = open \ {endpoint_index}
    /\ IF (\A k \in DOMAIN out : out[k].ep # endpoint_index) /\ HasNext
       THEN pc' = "try" /\ endpoint_index' = endpoint_index + 1
       ELSE pc' = "returned" /\ endpoint_index' = endpoint_index
    /\ UNCHANGED <<endpoints, thinking_started, tool_calls, last_error,
                   raised, out, attempts, errors>>

\* The generator ends; stream_generate_content returns.
Return ==
    /\ pc' = "returned"
    /\ open' = open \ {endpoint_index}
    /\ UNCHANGED <<endpoints, endpoint_index, thinking_started, tool_calls, last_error,
                   raised, out, attempts, errors>>

\* One iteration of "async for line in response.aiter_lines()" that does not
\* reach the sentinel: the record is decoded and its events are forwarded.
ReadLine(l) ==
    /\ pc = "streaming"
    /\ nlines < MaxLines
    /\ l.kind # "done"
    /\ line' = l
    /\ LET d == IF l.kind = "skip"
                THEN Decoder(thinking_started, tool_calls)
                ELSE ProcessRecord(l, thinking_started, tool_calls)
       IN /\ thinking_started' = d.thinking_started
          /\ tool_calls' = d.tool_calls
          /\ out' = out \o Forwarded(d.events, endpoint_index)
          /\ consumer' = (IF d.events # <<>> THEN "holding" ELSE "awaiting")
    /\ nlines' = nlines + 1
    /\ nparts' = nparts + PartCount(l)
    /\ UNCHANGED <<endpoints, endpoint_index, pc, last_error, raised, attempts, open, errors,
                   sessionVars>>

\* Mutant of ReadDone: the sentinel flushes the accumulated function calls.
ReadDoneFlushesCalls ==
    /\ pc = "streaming"
    /\ nlines < MaxLines
    /\ nlines' = nlines + 1
    /\ line' = DoneLine
    /\ pc' = "returned"
    /\ open' = open \ {endpoint_index}
    /\ out' = out \o Forwarded(IF tool_calls # <<>> THEN <<ToolCallsEvent(tool_calls)>>
                                ELSE <<>>, endpoint_index)
    /\ tool_calls' = <<>>
    /\ consumer' = "awaiting"
    /\ UNCHANGED <<endpoints, endpoint_index, thinking_started, last_error,
                   raised, attempts, errors, nparts, sessionVars>>

\* if json_str.strip() == '[DONE]': break
ReadDone ==
    /\ pc = "streaming"
    /\ nlines < MaxLines
    /\ nlines' = nlines + 1
    /\ line' = DoneLine
    /\ Return
    /\ consumer' = "awaiting"
    /\ UNCHANGED <<nparts, sessionVars>>

\* aiter_lines() is exhausted: the backend closed the stream.
StreamEnds ==
    /\ pc = "streaming"
    /\ line' = NoLine
    /\ Return
    /\ consumer' = "awaiting"
    /\ UNCHANGED <<nlines, nparts, sessionVars>>

\* aiter_lines() raises while the stream is being read.
StreamFails ==
    /\ pc = "streaming"
    /\ \E e \in TransportFailures(endpoint_index) : AttemptFails(e)
    /\ consumer' = "awaiting"
    /\ UNCHANGED <<endpoints, thinking_started, tool_calls, out, attempts, nlines, nparts,
                   sessionVars>>

\* The caller stops consuming: the exception that ends the generator
\* (asyncio.CancelledError or GeneratorExit) is a BaseException, so none of the
\* except clauses of the retry loop handles it and it leaves
\* stream_generate_content.
Abandon ==
    /\ pc' = "abandoned"
    /\ consumer' = "gone"
    /\ line' = NoLine
    /\ UNCHANGED <<endpoints, endpoint_index, thinking_started, tool_calls, last_error,
                   raised, out, errors, nlines, nparts, sessionVars>>

\* The caller's task is cancelled while client.stream() is still connecting:
\* the async with blocks exit before a response exists.
CancelConnect ==
    /\ AtLoopBody
    /\ attempts' = Append(attempts, endpoint_index)
    /\ open' = open
    /\ Abandon

\* Mutant of CancelRead: the cancellation is handled by "except Exception" like
\* any failure of the attempt.
CancelReadCaughtAsFailure ==
    /\ pc = "streaming"
    /\ AttemptFails(OtherError(endpoint_index))
    /\ consumer' = "gone"
    /\ UNCHANGED <<endpoints, thinking_started, tool_calls, out, attempts, nlines, nparts,
                   sessionVars>>

\* The caller's task is cancelled while it awaits the next chunk, i.e. while
\* aiter_lines() waits for data: CancelledError is raised at that await, both
\* async with blocks exit (the connection is closed) and the error passes
\* through the retry loop.
CancelRead ==
    /\ pc = "streaming"
    /\ attempts' = attempts
    /\ open' = open \ {endpoint_index}
    /\ Abandon

\* The caller closes the generator while it holds a chunk: GeneratorExit is
\* raised at "yield chunk" and ends stream_generate_content.  The async for
\* does not close _stream_generate_content_single, which stays suspended at
\* its own yield, inside the async with blocks, until it is finalized.
CloseAtYield ==
    /\ pc = "streaming"
    /\ consumer = "holding"
    /\ attempts' = attempts
    /\ open' = open
    /\ Abandon

\* The event loop's asynchronous-generator finalizer runs aclose() on the
\* unreferenced _stream_generate_content_single: GeneratorExit is raised at
\* its yield and the async with blocks close the connection.
FinalizeDecoder ==
    /\ pc = "abandoned"
    /\ open # {}
    /\ open' = {}
    /\ UNCHANGED <<endpoints, endpoint_index, pc, thinking_started, tool_calls, line,
                   last_error, raised, out, attempts, errors, nlines, nparts, consumer,
                   sessionVars>>

Next ==
    \/ ConnectFails
    \/ StatusNot200
    \/ ConnectOk
    \/ \E l \in Lines(MaxParts - nparts) : ReadLine(l)
    \/ ReadDone
    \/ StreamEnds
    \/ StreamFails
    \/ CancelConnect
    \/ CancelRead
    \/ CloseAtYield
    \/ FinalizeDecoder

Spec == Init /\ [][Next]_vars

\* The event loop keeps running: the finalizer it scheduled is executed.
FairSpec == Spec /\ WF_vars(FinalizeDecoder)

----
\* The caller-format encoder: convert_sse_to_openai_format and
\* generate_finish_chunk.  Both return text made of framed records; the model
\* keeps the sequence of records and, for a chunk record, the object passed to
\* json.dumps.  "" and 0 stand for a stream_id and a created that are None (or
\* otherwise falsy); now is time.time() in milliseconds.

MaxEvents == 3
MaxTicks == 1

Model == "gemini-model"
\* json.dumps(None)
JsonNull == "null"

\* The events an encoding session may be given: what the decoder yields, a
\* text event without content, and an event of a type the encoder does not know.
EncoderEvents ==
    {OpenMarker, CloseMarker, ThinkingEvent(ThoughtPart), TextEvent(TextPart),
     [type |-> "text"], [type |-> "ping"]}
    \cup {ToolCallsEvent(<<ToolCall(p.functionCall)>>) : p \in FunctionCallParts}

\* The values a caller may pass for stream_id and created.
StreamIds == {"", "chatcmpl-caller"}
Createds == {0, 7}

\* sse_chunk.get('type')
ChunkType(sse_chunk) == IF "type" \in DOMAIN sse_chunk THEN sse_chunk.type ELSE JsonNull

\* if not stream_id: stream_id = f"chatcmpl-{int(time.time() * 1000)}"
StreamIdOrDefault(sid, now) == IF sid = "" THEN "chatcmpl-" \o ToString(now) ELSE sid
\* if not created: created = int(time.time())
CreatedOrDefault(cr, now) == IF cr = 0 THEN now \div 1000 ELSE cr

\* The dict both functions build.
Chunk(sid, cr, model, delta, finish_reason) ==
    [id |-> sid,
     object |-> "chat.completion.chunk",
     created |-> cr,
     model |-> model,
     choices |-> <<[index |-> 0, delta |-> delta, finish_reason |-> finish_reason]>>]

\* f"data: {json.dumps(chunk)}\n\n"
DataRecord(chunk) == [kind |-> "data", json |-> chunk]
\* "data: [DONE]\n\n"
DoneRecord == [kind |-> "done", json |-> <<>>]

\* Mutant of convert_sse_to_openai_format: a thinking chunk is written out as content.
ConvertPassesThinking(sse_chunk, model, sid, cr, now) ==
    LET id == StreamIdOrDefault(sid, now)
        at == CreatedOrDefault(cr, now)
        chunk_type == ChunkType(sse_chunk)
    IN IF chunk_type = "tool_calls"
       THEN <<DataRecord(Chunk(id, at, model, [tool_calls |-> sse_chunk.tool_calls], JsonNull))>>
       ELSE IF chunk_type \in {"text", "thinking"}
       THEN <<DataRecord(Chunk(id, at, model,
                               [content |-> IF "content" \in DOMAIN sse_chunk
                                            THEN sse_chunk.content ELSE ""],
                               JsonNull))>>
       ELSE <<>>

\* The records of the returned text: none for "", one for a chunk.
convert_sse_to_openai_format(sse_chunk, model, sid, cr, now) ==
    LET id == StreamIdOrDefault(sid, now)
        at == CreatedOrDefault(cr, now)
        chunk_type == ChunkType(sse_chunk)
    IN IF chunk_type = "thinking" THEN <<>>
       ELSE IF chunk_type = "tool_calls"
       THEN <<DataRecord(Chunk(id, at, model, [tool_calls |-> sse_chunk.tool_calls], JsonNull))>>
       ELSE IF chunk_type = "text"
       THEN <<DataRecord(Chunk(id, at, model,
                               [content |-> IF "content" \in DOMAIN sse_chunk
                                            THEN sse_chunk.content ELSE ""],
                               JsonNull))>>
       ELSE <<>>

\* Mutant of generate_finish_chunk: the finish reason is always "stop".
GenerateFinishChunkAlwaysStop(model, has_calls, sid, cr, now) ==
    <<DataRecord(Chunk(StreamIdOrDefault(sid, now), CreatedOrDefault(cr, now), model,
                       <<>>, "stop")),
      DoneRecord>>

\* Mutant of generate_finish_chunk: the sentinel record is missing.
GenerateFinishChunkNoSentinel(model, has_calls, sid, cr, now) ==
    <<DataRecord(Chunk(StreamIdOrDefault(sid, now), CreatedOrDefault(cr, now), model,
                       <<>>, IF has_calls THEN "tool_calls" ELSE "stop"))>>

\* The two records of the returned text: the terminal chunk and the sentinel.
generate_finish_chunk(model, has_calls, sid, cr, now) ==
    LET finish_reason == IF has_calls THEN "tool_calls" ELSE "stop"
    IN <<DataRecord(Chunk(StreamIdOrDefault(sid, now), CreatedOrDefault(cr, now), model,
                          <<>>, finish_reason)),
         DoneRecord>>

\* The records, tagged with the position in fed of the event they come from
\* (0 for the records of generate_finish_chunk).
Written(records, from) == [k \in 1..Len(records) |-> [from |-> from, rec |-> records[k]]]

\* One encoding session: the caller's stream_id and created (possibly None)
\* are passed to every call, and the session starts at some time of the clock.
InitEncode ==
    /\ endpoints = <<PRIMARY_URL>>
    /\ CallStart
    /\ epc = "encoding"
    /\ stream_id \in StreamIds
    /\ created \in Createds
    /\ has_tool_calls = FALSE
    /\ clock = 1999
    /\ fed = <<>>
    /\ wire = <<>>

\* The session encodes the next event and records whether it was a ToolCalls event.
EncodeEvent(ev) ==
    /\ epc = "encoding"
    /\ Len(fed) < MaxEvents
    /\ fed' = Append(fed, ev)
    /\ wire' = wire \o Written(convert_sse_to_openai_format(ev, Model, stream_id, created, clock),
                               Len(fed) + 1)
    /\ has_tool_calls' = (has_tool_calls \/ ChunkType(ev) = "tool_calls")
    /\ UNCHANGED <<epc, stream_id, created, clock, callVars>>

\* Time passes between two calls.
Tick ==
    /\ epc = "encoding"
    /\ clock < 1999 + MaxTicks
    /\ clock' = clock + 1
    /\ UNCHANGED <<epc, stream_id, created, has_tool_calls, fed, wire, callVars>>

\* The event sequence is over: the session writes the terminal chunk.
Finish ==
    /\ epc = "encoding"
    /\ epc' = "finished"
    /\ wire' = wire \o Written(generate_finish_chunk(Model, has_tool_calls, stream_id, created,
                                                     clock), 0)
    /\ UNCHANGED <<stream_id, created, has_tool_calls, clock, fed, callVars>>

NextEncode ==
    \/ \E ev \in EncoderEvents : EncodeEvent(ev)
    \/ Tick
    \/ Finish

SpecEncode == InitEncode /\ [][NextEncode]_vars

----
\* Observations on the histories.

\* The events one endpoint's decoder produced, in order.
EventsOf(ep) ==
    LET sel == SelectSeq(out, LAMBDA o : o.ep = ep)
    IN [k \in 1..Len(sel) |-> sel[k].chunk]

\* The orchestrator forwarded at least one event from the endpoint.
Committed(ep) == \E k \in DOMAIN out : out[k].ep = ep

IsMarker(ev) == ev = OpenMarker \/ ev = CloseMarker
MarkersOf(ep) == SelectSeq(EventsOf(ep), IsMarker)
Count(seq, x) == Cardinality({k \in DOMAIN seq : seq[k] = x})

\* A thinking section is open just before position k of the event sequence.
ThinkingOpenBefore(ev, k) ==
    \E j \in 1..(k - 1) :
        /\ ev[j] = OpenMarker
        /\ \A i \in (j + 1)..(k - 1) : ev[i] # CloseMarker

\* The failure classes of the claims, by what failed (not by the message text).
IsForbidden(e) == e.cls = "ValueError"
IsRetryableStatus(e) == e.cls = "HTTPError" /\ e.status \in {429, 500, 502, 503, 504}
IsTimeoutOrRetryable(e) == IsTimeoutException(e) \/ IsRetryableStatus(e)
IsOtherFailure(e) == ~IsForbidden(e) /\ ~IsTimeoutOrRetryable(e)

\* After the k-th attempt failed, the loop went on to the next candidate.
WentOnAfter(k) ==
    /\ endpoint_index > k
    /\ ~(pc = "raised" /\ raised.ep = k)

\* The error the caller sees for failure e: e itself, or for a timeout the
\* HTTPError the handler builds for that endpoint.
Describes(r, e) ==
    IF IsTimeoutException(e)
    THEN r = [cls |-> "HTTPError", status |-> 0, mentions |-> {Timeout}, ep |-> e.ep]
    ELSE r = e

----
\* C1: a Forbidden failure (403) of an attempt is raised to the caller at once,
\* as the ValueError it is, and no later candidate is attempted.
C1_ForbiddenIsFatal ==
    \A k \in DOMAIN errors :
        IsForbidden(errors[k]) =>
            /\ pc = "raised"
            /\ raised = errors[k]
            /\ Len(attempts) = k

\* C2: once an event of an endpoint was forwarded, a failure of that endpoint's
\* stream is raised and no later candidate is attempted; all events of a call
\* come from one endpoint.
C2_NoPostCommitFailover ==
    /\ \A k \in DOMAIN errors :
          Committed(errors[k].ep) => pc = "raised" /\ Len(attempts) = k
    /\ \A i, j \in DOMAIN out : out[i].ep = out[j].ep

\* C3: candidates are attempted in list order, none skipped, none attempted
\* twice, at most one connection is open at a time and none while the loop is
\* between attempts; when the primary timed out before any event and the backup
\* then ended normally, the attempts are exactly primary, backup.
C3_OrderedAttempts ==
    /\ \A k \in DOMAIN attempts : attempts[k] = k
    /\ Len(attempts) <= Len(endpoints)
    /\ Cardinality(open) <= 1
    /\ (pc \notin {"streaming", "abandoned"} => open = {})
    /\ (pc = "streaming" => open = {attempts[Len(attempts)]})
    /\ (/\ pc = "returned"
        /\ errors # <<>>
        /\ IsTimeoutException(errors[1])
        /\ ~Committed(1)
        => attempts = <<1, 2>> /\ Len(errors) = 1)

C3_Witness ==
    /\ pc = "returned"
    /\ errors = <<TimeoutError(1)>>
    /\ attempts = <<1, 2>>
    /\ EventsOf(1) = <<>>
    /\ EventsOf(2) # <<>>

\* C4: a timeout, a 429 or a 500/502/503/504 before any event, with a later
\* candidate left, does not raise: the loop goes on to the next candidate.
C4_TransientFailsOver ==
    \A k \in DOMAIN errors :
        (IsTimeoutOrRetryable(errors[k]) /\ ~Committed(k) /\ k < Len(endpoints))
            => WentOnAfter(k)

C4_Witness ==
    /\ Len(errors) >= 1
    /\ errors[1] = StatusError(504, {}, 1)
    /\ attempts = <<1, 2>>
    /\ pc = "streaming"

\* C5: any other failure before any event (a transport error, a 400, a 404)
\* with a later candidate left does not raise: the loop goes on to the next
\* candidate.
C5_OtherFailuresFailOver ==
    \A k \in DOMAIN errors :
        (IsOtherFailure(errors[k]) /\ ~Committed(k) /\ k < Len(endpoints))
            => WentOnAfter(k)

\* C6: when every candidate was attempted and each failed (none Forbidden),
\* the error raised is the one of the last attempted endpoint.
C6_ExhaustedRaisesLast ==
    (/\ Len(errors) = Len(endpoints)
     /\ \A k \in DOMAIN errors : ~IsForbidden(errors[k]))
        => /\ pc = "raised"
           /\ raised.ep = Len(endpoints)
           /\ Describes(raised, errors[Len(errors)])

C6_Witness ==
    /\ Len(endpoints) = 2
    /\ pc = "raised"
    /\ errors = <<StatusError(503, {}, 1), TransportError({}, 2)>>

\* C7: when a decoder reaches the end of its stream, it has emitted as many
\* opening markers as closing markers.
C7_MarkersPaired ==
    pc = "returned" =>
        Count(EventsOf(endpoint_index), OpenMarker)
            = Count(EventsOf(endpoint_index), CloseMarker)

C9_NoContentWhileThinking ==
    \A ep \in 1..Len(endpoints) :
        LET ev == EventsOf(ep)
        IN \A k \in DOMAIN ev :
              ev[k].type \in {"text", "tool_calls"} =>
                  /\ ~ThinkingOpenBefore(ev, k)
                  /\ (k > 1 /\ ev[k - 1].type = "thinking" => ev[k - 1] = CloseMarker)

C9_Witness ==
    \E k \in 2..Len(EventsOf(1)) :
        /\ EventsOf(1)[k].type = "tool_calls"
        /\ EventsOf(1)[k - 1] = CloseMarker

----
\* The tool_calls emission of one decoding step.

\* A step that decodes one line: the generator read a line and is still running.
DecodesLine == pc = "streaming" /\ pc' = "streaming" /\ nlines' = nlines + 1

\* The events the step forwarded.
Emitted == SubSeq(out', Len(out) + 1, Len(out'))
EmittedToolCalls == {k \in DOMAIN Emitted : Emitted[k].chunk.type = "tool_calls"}

\* The record's candidate carries a finishReason.
CarriesFinishReason(l) ==
    /\ l.kind = "record"
    /\ l.candidates # <<>>
    /\ "finishReason" \in DOMAIN l.candidates[1]

\* The parts of the record up to the first one whose processing raises.
RECURSIVE ProcessedParts(_)
ProcessedParts(parts) ==
    IF parts = <<>> \/ "malformed" \in DOMAIN Head(parts) THEN <<>>
    ELSE <<Head(parts)>> \o ProcessedParts(Tail(parts))

RaisesInParts(l) ==
    /\ l.kind = "record"
    /\ l.candidates # <<>>
    /\ \E k \in DOMAIN l.candidates[1].parts :
          "malformed" \in DOMAIN l.candidates[1].parts[k]

\* The calls of the function-call parts the step accumulated from the record,
\* in arrival order.
CallsOf(l) ==
    IF l.kind = "record" /\ l.candidates # <<>>
    THEN LET fcs == SelectSeq(ProcessedParts(l.candidates[1].parts),
                              LAMBDA part : "functionCall" \in DOMAIN part)
         IN [k \in 1..Len(fcs) |-> ToolCall(fcs[k].functionCall)]
    ELSE <<>>

\* What an emission looks like: one tool_calls event, the last event of the
\* step, carrying the calls accumulated before the record followed by the
\* record's own, and an empty accumulator afterwards.
EmitsAccumulated ==
    /\ Cardinality(EmittedToolCalls) = 1
    /\ Emitted[Len(Emitted)].chunk = ToolCallsEvent(tool_calls \o CallsOf(line'))
    /\ tool_calls' = <<>>

EmitsNothing ==
    /\ EmittedToolCalls = {}
    /\ tool_calls' = tool_calls \o CallsOf(line')

C11_BadRecordSkipped ==
    [][(nlines' = nlines + 1 /\ line' = BadJsonLine) =>
          /\ out' = out
          /\ thinking_started' = thinking_started
          /\ tool_calls' = tool_calls
          /\ errors' = errors
          /\ raised' = raised
          /\ last_error' = last_error
          /\ attempts' = attempts
          /\ endpoint_index' = endpoint_index
          /\ pc' = "streaming"
          /\ open' = open]_vars

\* An unparseable record was read while a thinking block was open and a
\* function call was waiting in the accumulator.
C11_Witness ==
    /\ line = BadJsonLine
    /\ pc = "streaming"
    /\ thinking_started
    /\ tool_calls # <<>>
    /\ endpoint_index \in open

\* C16: when the decode on an endpoint ends without an error (and the caller
\* did not abandon it), the call ends normally on that endpoint: nothing is
\* raised, no further candidate is attempted and the connection is closed,
\* whether or not an event was produced; nothing happens after the normal end.
C16_CleanEndIsSuccess ==
    [][/\ (/\ pc = "streaming"
           /\ pc' # "streaming"
           /\ errors' = errors
           /\ consumer' # "gone") =>
              /\ pc' = "returned"
              /\ raised' = None
              /\ attempts' = attempts
              /\ endpoint_index' = endpoint_index
              /\ out' = out
              /\ open' = {}
       /\ (pc = "returned" => callVars' = callVars)]_vars

\* The primary's stream held one record at least and ended without any event,
\* with a backup configured that was never tried.
C16_Witness ==
    /\ pc = "returned"
    /\ out = <<>>
    /\ nlines >= 1
    /\ Len(endpoints) = 2
    /\ attempts = <<1>>
    /\ errors = <<>>

\* C17: the end-of-stream sentinel ends the decode at once and gracefully:
\* the step that reads it emits nothing (function calls still accumulated
\* stay unemitted), raises nothing, returns and closes the connection; no
\* record is read and no event emitted after it.
C17_SentinelEndsDecode ==
    [][/\ (nlines' = nlines + 1 /\ line' = DoneLine) =>
              /\ pc' = "returned"
              /\ out' = out
              /\ tool_calls' = tool_calls
              /\ errors' = errors
              /\ raised' = None
              /\ open' = {}
       /\ (line = DoneLine => out' = out /\ nlines' = nlines /\ pc' = pc)]_vars

\* The sentinel was read while a function call was waiting in the accumulator
\* and a thinking block was open.
C17_Witness ==
    /\ line = DoneLine
    /\ pc = "returned"
    /\ tool_calls # <<>>
    /\ thinking_started
    /\ raised = None

\* C19: no candidate is attempted twice and there are at most two attempts;
\* a call that ended either returned with nothing raised or raised an error
\* of one of its attempts; the loop is never past the last candidate with
\* control at the code after it.
C19_BoundedAttemptsOneOutcome ==
    /\ Len(endpoints) <= 2
    /\ Len(attempts) <= Len(endpoints)
    /\ \A i, j \in DOMAIN attempts : attempts[i] = attempts[j] => i = j
    /\ ~FallThrough
    /\ (pc = "returned" => raised = None)
    /\ (pc = "raised" => raised # None /\ errors # <<>>)
    /\ (raised # None => pc = "raised")

\* Both candidates were attempted, both failed, and the call raised.
C19_Witness ==
    /\ pc = "raised"
    /\ Len(endpoints) = 2
    /\ endpoint_index = 2
    /\ attempts = <<1, 2>>
    /\ Len(errors) = 2

\* C20: for a non-200 response with a later candidate left, whether the loop
\* goes on or raises is the decision the status code alone gives (the one
\* taken for the same status with an empty body), whatever the body holds.
C20_DecisionByStatusOnly ==
    \A k \in DOMAIN errors :
        (errors[k].cls = "HTTPError" /\ errors[k].status # 0 /\ k < Len(endpoints)) =>
            (WentOnAfter(k) <=>
                ExtractStatus(ErrorStr(StatusError(errors[k].status, {}, k))) \in {429, 500})

\* C15: when the caller abandons the stream before it ends, nothing is read
\* and nothing is forwarded from then on, no candidate is attempted and no
\* failure is recorded or raised (abandonment is not a failure of the
\* attempt); a pending read is aborted with its connection closed in the
\* same step, and a connection left open by a close at a yield is closed
\* afterwards and stays closed.
C15_AbandonStopsWork ==
    /\ [][/\ (consumer # "gone" /\ consumer' = "gone") =>
                  /\ nlines' = nlines
                  /\ out' = out
                  /\ errors' = errors
                  /\ raised' = raised
                  /\ endpoint_index' = endpoint_index
                  /\ (pc = "streaming" => attempts' = attempts)
                  /\ (consumer = "awaiting" => open' = {})
           /\ (consumer = "gone" =>
                  /\ consumer' = "gone"
                  /\ nlines' = nlines
                  /\ out' = out
                  /\ errors' = errors
                  /\ raised' = raised
                  /\ attempts' = attempts
                  /\ endpoint_index' = endpoint_index
                  /\ open' \subseteq open)]_vars
    /\ ((consumer = "gone") ~> [](open = {}))

\* The caller abandoned the primary's stream after an event, with a backup
\* configured; the connection is closed and the backup was not attempted.
C15_Witness ==
    /\ consumer = "gone"
    /\ pc = "abandoned"
    /\ Len(endpoints) = 2
    /\ attempts = <<1>>
    /\ out # <<>>
    /\ open = {}

\* Observations on an encoding session.

\* The chunk records written for events, and the records of the session's end.
EventChunks == SelectSeq(wire, LAMBDA w : w.from # 0)
EndRecords == SelectSeq(wire, LAMBDA w : w.from = 0)
DeltaOf(w) == w.rec.json.choices[1].delta
FinishReasonOf(w) == w.rec.json.choices[1].finish_reason
IsThinking(ev) == ChunkType(ev) = "thinking"
IsText(ev) == ChunkType(ev) = "text"
IsToolCalls(ev) == ChunkType(ev) = "tool_calls"

\* C12: no chunk comes from a Thinking event (marker or fragment) and no
\* chunk's content is the content of a Thinking event of the session; the
\* delta of every chunk holds the content of the Text event, or the call list
\* of the ToolCalls event, it was written for.
C12_ThinkingFiltered ==
    \A k \in DOMAIN EventChunks :
        LET w == EventChunks[k]
            ev == fed[w.from]
        IN /\ ~IsThinking(ev)
           /\ w.rec.kind = "data"
           /\ \/ IsText(ev) /\ "content" \in DOMAIN ev /\ DeltaOf(w) = [content |-> ev.content]
              \/ IsText(ev) /\ "content" \notin DOMAIN ev /\ DeltaOf(w) = [content |-> ""]
              \/ IsToolCalls(ev) /\ DeltaOf(w) = [tool_calls |-> ev.tool_calls]
           /\ \A j \in DOMAIN fed :
                 (IsThinking(fed[j]) /\ "content" \in DOMAIN DeltaOf(w))
                     => DeltaOf(w).content # fed[j].content

\* A session was given an open marker, a thinking fragment and a Text event,
\* and wrote the one chunk of the Text event.
C12_Witness ==
    /\ fed = <<OpenMarker, ThinkingEvent(ThoughtPart), TextEvent(TextPart)>>
    /\ Len(EventChunks) = 1
    /\ DeltaOf(EventChunks[1]) = [content |-> TextPart.text]

\* C13: the terminal chunk of a finished session carries finish_reason
\* "tool_calls" when a ToolCalls event was encoded in the session, and "stop"
\* when none was.
C13_FinishReason ==
    epc = "finished" =>
        /\ EndRecords # <<>>
        /\ EndRecords[1].rec.kind = "data"
        /\ FinishReasonOf(EndRecords[1]) =
              (IF \E j \in DOMAIN fed : IsToolCalls(fed[j]) THEN "tool_calls" ELSE "stop")

\* A session encoded a ToolCalls event, then a Text event, and finished with
\* "tool_calls".
C13_Witness ==
    /\ epc = "finished"
    /\ Len(fed) >= 2
    /\ IsToolCalls(fed[1])
    /\ IsText(fed[Len(fed)])
    /\ FinishReasonOf(EndRecords[1]) = "tool_calls"

\* C14: when the caller supplied no stream_id, all chunks of the session
\* carry one id, and when it supplied no created, one created value, even if
\* the clock advances between the calls.
C14_StableDefaults ==
    \A i, j \in DOMAIN wire :
        (wire[i].rec.kind = "data" /\ wire[j].rec.kind = "data") =>
            /\ (stream_id = "" => wire[i].rec.json.id = wire[j].rec.json.id)
            /\ (created = 0 => wire[i].rec.json.created = wire[j].rec.json.created)

\* C18: for each Text and each ToolCalls event, in order, exactly one chunk
\* with finish_reason null, and none for any other event; a finished session
\* then holds exactly one terminal chunk with an empty delta, followed at once
\* by the sentinel record; nothing is written after the sentinel.
C18_OneChunkPerEventThenTerminal ==
    /\ [](/\ Len(EventChunks) = Cardinality({j \in DOMAIN fed : IsText(fed[j]) \/ IsToolCalls(fed[j])})
          /\ \A k \in DOMAIN EventChunks :
                /\ EventChunks[k].rec.kind = "data"
                /\ FinishReasonOf(EventChunks[k]) = JsonNull
                /\ DOMAIN DeltaOf(EventChunks[k]) # {}
                /\ IsText(fed[EventChunks[k].from]) \/ IsToolCalls(fed[EventChunks[k].from])
                /\ k > 1 => EventChunks[k - 1].from < EventChunks[k].from
          /\ (epc # "finished" => EndRecords = <<>>)
          /\ (epc = "finished" =>
                /\ wire = EventChunks \o EndRecords
                /\ Len(EndRecords) = 2
                /\ EndRecords[1].rec.kind = "data"
                /\ DOMAIN DeltaOf(EndRecords[1]) = {}
                /\ FinishReasonOf(EndRecords[1]) \in {"stop", "tool_calls"}
                /\ EndRecords[2].rec = DoneRecord))
    /\ [][epc = "finished" => wire' = wire /\ epc' = epc]_vars

\* A finished session of a Text, a Thinking and a ToolCalls event: four records.
C18_Witness ==
    /\ epc = "finished"
    /\ Len(fed) = 3
    /\ IsText(fed[1])
    /\ IsThinking(fed[2])
    /\ IsToolCalls(fed[3])
    /\ Len(wire) = 4
    /\ wire[4].rec = DoneRecord

\* C21: when a part of a parsed record raises, the step behaves as if the
\* record ended just before that part and carried no finishReason: the events
\* of the parts before it are forwarded, the flag and the accumulator are as
\* those parts left them, no tool_calls event and no closing marker is added
\* for the record's finishReason, nothing is raised to the retry loop and the
\* decode goes on reading on the same connection.
C21_PartFailureSkipsRest ==
    [][(nlines' = nlines + 1 /\ RaisesInParts(line')) =>
          LET before == ProcessParts(Decoder(thinking_started, tool_calls),
                                     ProcessedParts(line'.candidates[1].parts))
          IN /\ Emitted = Forwarded(before.events, endpoint_index)
             /\ thinking_started' = before.thinking_started
             /\ tool_calls' = tool_calls \o CallsOf(line')
             /\ EmittedToolCalls = {}
             /\ pc' = "streaming"
             /\ errors' = errors
             /\ raised' = raised
             /\ attempts' = attempts
             /\ endpoint_index' = endpoint_index
             /\ open' = open]_vars

\* A record with a finishReason whose second part raised: the events of its
\* first part, a thought, were forwarded and the thinking block is still open.
C21_Witness ==
    /\ pc = "streaming"
    /\ RaisesInParts(line)
    /\ CarriesFinishReason(line)
    /\ Len(line.candidates[1].parts) = 2
    /\ "thought" \in DOMAIN line.candidates[1].parts[1]
    /\ thinking_started
    /\ out # <<>>
    /\ out[Len(out)].chunk = ThinkingEvent(ThoughtPart)

\* The failure is a response with a status other than 200.
IsStatusFailure(e) == e.status # 0

\* C22: an attempt that failed on a status other than 200 forwarded no event
\* of its endpoint, and its connection is closed: it is not open once the
\* failure is recorded, so it is never open together with the next candidate's.
C22_StatusFailureIsPreCommit ==
    /\ \A k \in DOMAIN errors :
          IsStatusFailure(errors[k]) =>
              /\ attempts[k] = errors[k].ep
              /\ EventsOf(errors[k].ep) = <<>>
              /\ errors[k].ep \notin open
    /\ Cardinality(open) <= 1

\* The primary answered 503, the loop went on, and the backup is streaming
\* events over the only open connection.
C22_Witness ==
    /\ errors = <<StatusError(503, {}, 1)>>
    /\ pc = "streaming"
    /\ endpoint_index = 2
    /\ open = {2}
    /\ EventsOf(2) # <<>>
    /\ EventsOf(1) = <<>>

====
